---- MODULE Spec2Model ----
(***************************************************************************)
(* Model of the BOLL trading engine (trading_strategy.py, TradingEngine):  *)
(* the eight-state machine of process_trading_logic, execute_trade with    *)
(* its adapter calls, check_startup_position, and the polling loop         *)
(* monitoring_loop / update_market_data.                                   *)
(*                                                                         *)
(* The exchange adapter (self.client) is the environment: every call       *)
(* returns a value, returns nothing, or raises.  Prices are small          *)
(* integers; quantities are balance * ratio * leverage / price.            *)
(* In the engine loop add_log is abstracted to the number of "error" and   *)
(* "warning" entries a handler appends; check_boll_breakthrough only        *)
(* appends info/warning entries and is left out.  The list trading_logs    *)
(* itself, the kline store and calculate_boll are followed in              *)
(* specifications of their own (SpecLog, SpecStore, SpecBoll).             *)
(***************************************************************************)
EXTENDS Integers, Sequences, FiniteSets, TLC

VARIABLES
    current_state,      \* self.current_state
    position_side,      \* self.position_side
    position_size,      \* self.position_size
    entry_price,        \* self.entry_price
    last_close_price,   \* self.last_close_price
    boll_up,            \* self.boll_up
    boll_mb,            \* self.boll_mb
    boll_dn,            \* self.boll_dn
    is_running,         \* self.is_running
    venue,              \* signed position amount held at the exchange
    bar,                \* open_time (in bar units) of the bar now forming
    last_eval,          \* open_time of the last bar process_trading_logic ran on, or -1
    threads,            \* number of live threads running monitoring_loop
    symbol,             \* self.symbol
    db,                 \* the klines table of KlineDatabase and the rows delivered to it
    busy,               \* number of monitoring threads inside an iteration of the loop
    trading_logs,       \* self.trading_logs
    boll,               \* the last calculate_boll call: its arguments and what it returned
    visited,            \* the states the engine has been in (history)
    h                   \* record of the last operation (history, not read by the engine)

vars == <<current_state, position_side, position_size, entry_price,
          last_close_price, boll_up, boll_mb, boll_dn, is_running,
          venue, bar, last_eval, threads, symbol, db, busy, trading_logs, boll,
          visited, h>>

engine == <<current_state, position_side, position_size, entry_price>>
market == <<last_close_price, boll_up, boll_mb, boll_dn>>
loop == <<is_running, threads, bar, last_eval>>

\* the variables of the finer-grained loop, the log ring, calculate_boll and
\* the visited states; the engine loop of Spec leaves them alone
aux == <<busy, trading_logs, boll, visited>>

----------------------------------------------------------------------------
\* Bounds of the model

MaxPrice == 6
MaxBar == 1
MaxLots == 2
TestUnits == 10
MaxThreads == 2
MaxOpen == 1
MaxLogCalls == 103
MaxPeriod == 3
MaxKlines == 4
MaxClose == 3

Prices == 1..MaxPrice
\* (dn, mid, up) of the latest bar: dn < mid < up, or all three equal when
\* the closes of the window are all equal (the latest close with them)
Bands == {<<2, 3, 5>>, <<3, 3, 3>>}
Inputs == {i \in Prices \X Bands : i[2][1] = i[2][3] => i[1] = i[2][1]}

----------------------------------------------------------------------------
\* Configuration (binance_config.py)

position_ratio_pct == 70
leverage == 10

\* self.max_logs
max_logs == 100
DEFAULT_SYMBOL == "BTCUSDT"

\* the symbols a request to /api/trading/config may name
Symbols == {DEFAULT_SYMBOL, "ETHUSDT"}

\* the quantity bought with the test balance, and the venue's position limit
LotSize == (TestUnits * position_ratio_pct * leverage) \div 100
MaxVenue == MaxLots * LotSize

----------------------------------------------------------------------------
\* TradingState and PositionSide

WAITING == "WAITING"
BREAKTHROUGH_UP_WAITING == "BREAKTHROUGH_UP_WAITING"
HOLDING_SHORT == "HOLDING_SHORT"
BREAKTHROUGH_UP_AGAIN_WAITING == "BREAKTHROUGH_UP_AGAIN_WAITING"
BELOW_MB_WAITING == "BELOW_MB_WAITING"
HOLDING_LONG == "HOLDING_LONG"
BELOW_DN_WAITING == "BELOW_DN_WAITING"
ABOVE_MB_WAITING == "ABOVE_MB_WAITING"

TradingState == {WAITING, BREAKTHROUGH_UP_WAITING, HOLDING_SHORT,
                 BREAKTHROUGH_UP_AGAIN_WAITING, BELOW_MB_WAITING, HOLDING_LONG,
                 BELOW_DN_WAITING, ABOVE_MB_WAITING}

PositionSide == {"LONG", "SHORT", "NONE"}

\* the action argument of execute_trade: "开仓", "止损", "止盈"
OPEN == "OPEN"
STOP == "STOP"
TAKE_PROFIT == "TAKE_PROFIT"

----------------------------------------------------------------------------
\* Adapter outcomes (the environment)

Abs(n) == IF n < 0 THEN -n ELSE n
Sign(n) == IF n < 0 THEN -1 ELSE IF n > 0 THEN 1 ELSE 0

\* get_futures_account_balance: raises, returns nothing, or a USDT balance
\* (nothing, or the worth of TestUnits of the base asset at the price)
BalanceOutcomes(price) ==
    {[kind |-> "raise", usdt |-> 0], [kind |-> "none", usdt |-> 0],
     [kind |-> "ok", usdt |-> 0], [kind |-> "ok", usdt |-> TestUnits * price]}

\* get_position_info: raises, returns nothing, or the venue's position
PositionOutcomes == {"raise", "none", "ok"}

\* an order call: returns an order result, returns nothing, or raises
OrderOutcomes == {"ok", "none", "raise"}

\* the three adapter answers one execute_trade call may consume
TradeOutcomes(price) ==
    [bal : BalanceOutcomes(price), pos : PositionOutcomes, ord : OrderOutcomes,
     fill : {"full"}]

\* the answers one execute_trade call can consume: an open asks for the
\* balance and, if the quantity is positive, sends the order; a close asks
\* for the position and, if there is an answer, sends the order
Unused == [kind |-> "raise", usdt |-> 0]
OpenOutcomes(price) ==
    {o \in TradeOutcomes(price) : o.pos = "ok" /\ (o.bal.usdt <= 0 => o.ord = "ok")}
CloseOutcomes(price) ==
    {o \in TradeOutcomes(price) : o.bal = Unused /\ (o.pos # "ok" => o.ord = "ok")}
AllOk(price) ==
    [bal |-> [kind |-> "ok", usdt |-> TestUnits * price], pos |-> "ok", ord |-> "ok",
     fill |-> "full"]

\* a close order the venue accepts and fills for less than the requested
\* quantity (failure mode "partial fill" of close_long / close_short)
PartialClose == [bal |-> Unused, pos |-> "ok", ord |-> "ok", fill |-> "partial"]
FilledQty(qty, fill) == IF fill = "partial" THEN qty \div 2 ELSE qty

\* the answers the n-th call of a handler can consume; the calls a handler
\* makes do not depend on the answers
OutcomesFor(calls, n, price) ==
    IF Len(calls) < n THEN {AllOk(price)}
    ELSE IF calls[n] = "OPEN" THEN OpenOutcomes(price)
    ELSE CloseOutcomes(price)

\* the venue's position after a filled order of qty
VenueAfter(op, qty, v) ==
    CASE op = "open_long"   -> v + qty
      [] op = "open_short"  -> v - qty
      [] op = "close_long"  -> v - qty
      [] op = "close_short" -> v + qty

\* the venue fills an order only within its margin, and a close only against
\* a position of that direction (failure modes "insufficient margin" and
\* "no-position")
VenueAccepts(op, qty, v) ==
    /\ qty > 0
    /\ Abs(VenueAfter(op, qty, v)) <= MaxVenue
    /\ op = "close_long"  => (v > 0 /\ qty <= v)
    /\ op = "close_short" => (v < 0 /\ qty <= -v)

OrderResult(op, qty, v, ord) ==
    IF ord = "ok" /\ ~VenueAccepts(op, qty, v) THEN "raise" ELSE ord

----------------------------------------------------------------------------
\* The engine's working record during one handler: the engine fields, the
\* venue, and what the handler did to the adapter, the log and the callbacks.

World(st, side, size, entry, v) ==
    [current_state |-> st, position_side |-> side, position_size |-> size,
     entry_price |-> entry, venue |-> v,
     calls |-> <<>>, orders |-> <<>>, rets |-> <<>>, trades |-> <<>>,
     nErr |-> 0, nWarn |-> 0, path |-> <<>>, views |-> {}, partial |-> FALSE,
     before |-> <<side, size, entry>>, kept |-> <<>>]

\* the engine's position record
PositionRecord(w) == <<w.position_side, w.position_size, w.entry_price>>

\* get_status reads the engine fields one after the other, with no lock
GetStatus(w) == <<w.current_state, w.position_side>>

\* what a get_status call running between two assignments of the handler sees
Seen(w) == [w EXCEPT !.views = @ \cup {GetStatus(w)}]

AddLog(w, type) ==
    CASE type = "error"   -> [w EXCEPT !.nErr = @ + 1]
      [] type = "warning" -> [w EXCEPT !.nWarn = @ + 1]
      [] OTHER            -> w

\* calculate_safe_position_size
CalculateSafePositionSize(bal, current_price) ==
    IF bal.kind # "ok" THEN 0
    ELSE IF bal.usdt <= 0 THEN 0
    ELSE (bal.usdt * position_ratio_pct * leverage) \div (100 * current_price)

\* change_state: one assignment to current_state and one callback
ChangeState(w, new_state) ==
    LET type == IF new_state \in {BREAKTHROUGH_UP_WAITING, BREAKTHROUGH_UP_AGAIN_WAITING,
                                  BELOW_MB_WAITING, ABOVE_MB_WAITING} THEN "warning"
                ELSE IF new_state \in {HOLDING_SHORT, HOLDING_LONG} THEN "success"
                ELSE "info"
    IN  AddLog(Seen([w EXCEPT !.current_state = new_state, !.path = Append(@, new_state)]),
               type)

\* execute_trade leaves through "return False" / "return True", or through
\* its except clause (error log, trade callback with status ERROR, False)
Return(w, ret) ==
    [w EXCEPT !.rets = Append(@, ret),
              !.kept = Append(@, PositionRecord(w) = w.before)]

Report(w, side, action, status) ==
    [w EXCEPT !.trades = Append(@, [side |-> side, action |-> action, status |-> status])]

Except(w, side, action) == Return(Report(AddLog(w, "error"), side, action, "ERROR"), FALSE)

Submit(w, op, res) ==
    [w EXCEPT !.orders = Append(@, [op |-> op, res |-> res, held |-> Sign(w.venue)])]

Fill(w, op, qty, res) ==
    IF res = "ok" THEN [w EXCEPT !.venue = VenueAfter(op, qty, @)] ELSE w

\* the tail of execute_trade: "if order_result: ... else: ... return False"
Conclude(w, side, action, res) ==
    IF res = "ok" THEN Return(Report(AddLog(w, "success"), side, action, "SUCCESS"), TRUE)
    ELSE Return(AddLog(w, "error"), FALSE)

\* execute_trade(side, action) at price self.last_close_price; o holds the
\* adapter's answers to the calls it makes
ExecuteTradeBody(w, side, action, price, o) ==
    IF action = OPEN
    THEN LET quantity == CalculateSafePositionSize(o.bal, price)
             op == IF side = "BUY" THEN "open_long" ELSE "open_short"
             res == OrderResult(op, quantity, w.venue, o.ord)
         IN  IF quantity <= 0 THEN Return(AddLog(w, "warning"), FALSE)
             ELSE IF res = "raise" THEN Except(Submit(w, op, res), side, action)
             ELSE Conclude(Seen([Fill(Submit(w, op, res), op, quantity, res) EXCEPT
                               !.position_side = IF side = "BUY" THEN "LONG" ELSE "SHORT",
                               !.entry_price = price,
                               !.position_size = quantity]),
                           side, action, res)
    ELSE IF o.pos = "raise" THEN Except(w, side, action)
    ELSE IF o.pos = "none" THEN Return(AddLog(w, "warning"), FALSE)
    ELSE LET quantity == Abs(w.venue)
             op == IF w.position_side = "LONG" THEN "close_long" ELSE "close_short"
             res == IF w.position_side = "NONE" THEN "none"
                    ELSE OrderResult(op, quantity, w.venue, o.ord)
             sent == IF w.position_side = "NONE" THEN w ELSE Submit(w, op, res)
         IN  IF res = "raise" THEN Except(sent, side, action)
             ELSE Conclude(Seen([Fill(sent, op, FilledQty(quantity, o.fill), res) EXCEPT
                               !.position_side = "NONE",
                               !.position_size = 0,
                               !.entry_price = 0,
                               !.partial = @ \/ (res = "ok" /\ o.fill = "partial")]),
                           side, action, res)

ExecuteTrade(w, side, action, price, o) ==
    ExecuteTradeBody([w EXCEPT !.calls = Append(@, action), !.before = PositionRecord(w)],
                     side, action, price, o)

----------------------------------------------------------------------------
\* process_trading_logic

\* a non-strict comparison in place of "close_price > band"
CrossAbove_NonStrict(close_price, band) == close_price >= band

\* the comparisons "close_price > self.boll_xx" and "close_price < self.boll_xx"
CrossAbove(close_price, band) == close_price > band
CrossBelow(close_price, band) == close_price < band

\* the WAITING branch with the short opened at once on the breakthrough
InWaiting_OpensShort(w, close_price, up, o1) ==
    IF CrossAbove(close_price, up)
    THEN ChangeState(ExecuteTrade(AddLog(w, "warning"), "SELL", OPEN, close_price, o1),
                     BREAKTHROUGH_UP_WAITING)
    ELSE w

\* the branch "if self.current_state == TradingState.WAITING"
InWaiting(w, close_price, up, o1) ==
    IF CrossAbove(close_price, up)
    THEN ChangeState(AddLog(w, "warning"), BREAKTHROUGH_UP_WAITING)
    ELSE w

\* the HOLDING_LONG branch waiting above the middle band after the
\* breakthrough instead of reversing at once
InHoldingLong_ViaAboveMb(w, close_price, up, mb, o1, o2) ==
    IF CrossBelow(close_price, mb)
    THEN ChangeState(ExecuteTrade(AddLog(w, "error"), "SELL", STOP, close_price, o1),
                     WAITING)
    ELSE IF CrossAbove(close_price, up)
    THEN ChangeState(AddLog(w, "success"), ABOVE_MB_WAITING)
    ELSE w

\* the branch "elif self.current_state == TradingState.HOLDING_LONG"
InHoldingLong(w, close_price, up, mb, o1, o2) ==
    IF CrossBelow(close_price, mb)
    THEN ChangeState(ExecuteTrade(AddLog(w, "error"), "SELL", STOP, close_price, o1),
                     WAITING)
    ELSE IF CrossAbove(close_price, up)
    THEN ChangeState(
           ExecuteTrade(
             ExecuteTrade(
               ChangeState(AddLog(w, "success"), BREAKTHROUGH_UP_WAITING),
               "SELL", TAKE_PROFIT, close_price, o1),
             "SELL", OPEN, close_price, o2),
           HOLDING_SHORT)
    ELSE w

ProcessTradingLogic(w, close_price, up, mb, dn, o1, o2) ==
    CASE w.current_state = WAITING -> InWaiting(w, close_price, up, o1)
      [] w.current_state = BREAKTHROUGH_UP_WAITING ->
            IF CrossBelow(close_price, up)
            THEN ChangeState(ExecuteTrade(AddLog(w, "warning"), "SELL", OPEN, close_price, o1),
                             HOLDING_SHORT)
            ELSE w
      [] w.current_state = HOLDING_SHORT ->
            IF CrossAbove(close_price, up)
            THEN ChangeState(ExecuteTrade(AddLog(w, "error"), "BUY", STOP, close_price, o1),
                             BREAKTHROUGH_UP_AGAIN_WAITING)
            ELSE IF CrossBelow(close_price, mb)
            THEN ChangeState(AddLog(w, "success"), BELOW_MB_WAITING)
            ELSE w
      [] w.current_state = BREAKTHROUGH_UP_AGAIN_WAITING ->
            IF CrossBelow(close_price, up)
            THEN ChangeState(ExecuteTrade(AddLog(w, "warning"), "SELL", OPEN, close_price, o1),
                             HOLDING_SHORT)
            ELSE w
      [] w.current_state = BELOW_MB_WAITING ->
            IF CrossAbove(close_price, mb)
            THEN ChangeState(
                   ExecuteTrade(
                     ExecuteTrade(AddLog(w, "success"), "BUY", TAKE_PROFIT, close_price, o1),
                     "BUY", OPEN, close_price, o2),
                   HOLDING_LONG)
            ELSE IF CrossBelow(close_price, dn)
            THEN ChangeState(AddLog(w, "warning"), BELOW_DN_WAITING)
            ELSE w
      [] w.current_state = HOLDING_LONG ->
            InHoldingLong(w, close_price, up, mb, o1, o2)
      [] w.current_state = BELOW_DN_WAITING ->
            IF CrossAbove(close_price, dn)
            THEN ChangeState(
                   ExecuteTrade(
                     ExecuteTrade(AddLog(w, "success"), "BUY", TAKE_PROFIT, close_price, o1),
                     "BUY", OPEN, close_price, o2),
                   HOLDING_LONG)
            ELSE w
      [] w.current_state = ABOVE_MB_WAITING ->
            IF CrossAbove(close_price, up)
            THEN ChangeState(AddLog(w, "warning"), BREAKTHROUGH_UP_WAITING)
            ELSE IF CrossBelow(close_price, mb)
            THEN ChangeState(
                   ExecuteTrade(
                     ExecuteTrade(AddLog(w, "success"), "SELL", TAKE_PROFIT, close_price, o1),
                     "SELL", OPEN, close_price, o2),
                   HOLDING_SHORT)
            ELSE w

----------------------------------------------------------------------------
\* check_startup_position with the two directions exchanged
CheckStartup_Swapped(pos, amt, entry) ==
    IF pos = "ok" /\ amt # 0
    THEN IF amt < 0
         THEN [current_state |-> HOLDING_LONG, position_side |-> "LONG",
               position_size |-> Abs(amt), entry_price |-> entry]
         ELSE [current_state |-> HOLDING_SHORT, position_side |-> "SHORT",
               position_size |-> Abs(amt), entry_price |-> entry]
    ELSE [current_state |-> WAITING, position_side |-> "NONE",
          position_size |-> 0, entry_price |-> 0]

\* check_startup_position: the engine fields a fresh engine derives from the
\* answer of get_position_info (amt, entry)
CheckStartup(pos, amt, entry) ==
    IF pos = "raise"
    THEN [current_state |-> WAITING, position_side |-> "NONE",
          position_size |-> 0, entry_price |-> 0]
    ELSE IF pos = "ok" /\ amt # 0
    THEN IF amt > 0
         THEN [current_state |-> HOLDING_LONG, position_side |-> "LONG",
               position_size |-> Abs(amt), entry_price |-> entry]
         ELSE [current_state |-> HOLDING_SHORT, position_side |-> "SHORT",
               position_size |-> Abs(amt), entry_price |-> entry]
    ELSE [current_state |-> WAITING, position_side |-> "NONE",
          position_size |-> 0, entry_price |-> 0]

\* the klines the exchange returns for a poll while bar t is forming: the
\* finalized bar before it (its close is not read) and, last, the bar still
\* forming with its current price
ExchangeKlines(t, price) ==
    << [open_time |-> t - 1, closed |-> TRUE],
       [open_time |-> t, closed |-> FALSE, close |-> price] >>

\* update_market_data: latest_kline = klines[-1]
LatestKline(klines) == klines[Len(klines)]

----------------------------------------------------------------------------
\* KlineDatabase: the klines table, UNIQUE(symbol, interval_type, open_time)

Intervals == {"1m", "15m"}

\* the duration of an interval in milliseconds
Duration(interval) ==
    CASE interval = "1m"  -> 60000
      [] interval = "5m"  -> 300000
      [] interval = "15m" -> 900000
      [] interval = "1h"  -> 3600000
      [] interval = "4h"  -> 14400000
      [] interval = "1d"  -> 86400000

\* "timestamp + 60000" of save_kline_data
AssumedSpan == 60000

OpenTimes == {k * Duration("15m") : k \in 0..MaxOpen}

\* kline rows as the exchange delivers them
KlineRows ==
    {[symbol |-> DEFAULT_SYMBOL, interval |-> iv, open_time |-> t,
      close_time |-> t + Duration(iv), close |-> c] :
        iv \in Intervals, t \in OpenTimes, c \in {1, 2}}

\* a unique key without the interval
KlineKey_NoInterval(row) == <<row.symbol, row.open_time>>

KlineKey(row) == <<row.symbol, row.interval, row.open_time>>

\* rows that differ in symbol, interval or open_time
DistinctKeys(rows) ==
    \A r1, r2 \in rows :
        (r1.symbol = r2.symbol /\ r1.interval = r2.interval /\ r1.open_time = r2.open_time)
            => r1 = r2

\* the row each write path stores for a delivered kline
StoredRow(path, row) ==
    IF path = "save_klines" THEN row
    ELSE [row EXCEPT !.close_time = row.open_time + AssumedSpan]

\* a plain INSERT into a table without the unique key
InsertOrReplace_Insert(table, row) == Append(table, row)

\* INSERT OR REPLACE: a row with the same key is deleted, the new one added
InsertOrReplace(table, row) ==
    LET Other(r) == KlineKey(r) # KlineKey(row)
    IN  Append(SelectSeq(table, Other), row)

Content(table) == {table[i] : i \in 1..Len(table)}

EmptyDb ==
    [input |-> {}, path |-> "save_kline_data", table |-> <<>>, done |-> {},
     redelivered |-> FALSE]

----------------------------------------------------------------------------
\* History record of the last operation

NoHandler ==
    [upd |-> "init", startup |-> "na",
     state0 |-> WAITING, side0 |-> "NONE",
     calls |-> <<>>, orders |-> <<>>, rets |-> <<>>, trades |-> <<>>,
     nErr |-> 0, nWarn |-> 0, path |-> <<>>, views |-> {}, partial |-> FALSE,
     open_time |-> 0, closed |-> FALSE, again |-> FALSE, added |-> 0, kept |-> <<>>,
     ret |-> FALSE]

\* TradingEngine.add_log on the list self.trading_logs

LogTypes == <<"info", "warning", "error", "success">>

\* the entry the k-th add_log call builds: its message and its type
LogEntry(k) == [message |-> k, type |-> LogTypes[(k % 4) + 1]]

\* logs[-n:]
LastEntries(logs, n) ==
    IF Len(logs) <= n THEN logs ELSE SubSeq(logs, Len(logs) - n + 1, Len(logs))

\* an add_log that cuts the list at the other end, logs[:max_logs]
add_log_KeepsOldest(logs, log_entry) ==
    LET appended == Append(logs, log_entry)
    IN  IF Len(appended) > max_logs THEN SubSeq(appended, 1, max_logs) ELSE appended

\* add_log: append, then "if len(self.trading_logs) > self.max_logs" keep the
\* last max_logs entries
add_log(logs, log_entry) ==
    LET appended == Append(logs, log_entry)
    IN  IF Len(appended) > max_logs THEN LastEntries(appended, max_logs) ELSE appended

\* BinanceFuturesClient.calculate_boll

\* std_dev=2
std_dev == 2

\* an entry of a band array: None, or the number
\* num / den + dev * sqrt(var / den^2)
None == [defined |-> FALSE, num |-> 0, den |-> 1, dev |-> 0, var |-> 0]
BandValue(num, den, dev, var) ==
    [defined |-> TRUE, num |-> num, den |-> den, dev |-> dev, var |-> var]

RECURSIVE Sum(_)
Sum(xs) == IF xs = <<>> THEN 0 ELSE Head(xs) + Sum(Tail(xs))

Squares(xs) == [j \in 1..Len(xs) |-> xs[j] * xs[j]]

\* the three values appended for index i (counted from 0) once i >= period - 1:
\* sma = sum / period, variance = sum((x - sma)^2) / period, which is
\* (period * sum(x^2) - sum^2) / period^2
BollAt(closes, i, period, side) ==
    LET period_closes == SubSeq(closes, i - period + 2, i + 1)
        total == Sum(period_closes)
        var == period * Sum(Squares(period_closes)) - total * total
    IN  BandValue(total, period, side * std_dev, var)

\* the band array of one side (1 upper, 0 middle, -1 lower)
Band(closes, period, side) ==
    [j \in 1..Len(closes) |->
        IF j - 1 < period - 1 THEN None ELSE BollAt(closes, j - 1, period, side)]

\* the rows written with save_boll_indicator
SavedRows(klines, closes, period) ==
    {[timestamp |-> klines[j].timestamp,
      upper |-> Band(closes, period, 1)[j],
      middle |-> Band(closes, period, 0)[j],
      lower |-> Band(closes, period, -1)[j]] : j \in period..Len(klines)}

\* a calculate_boll whose first period entries are None
calculate_boll_LateStart(klines, period) ==
    IF Len(klines) < period
    THEN [upper |-> <<>>, middle |-> <<>>, lower |-> <<>>, saved |-> {}]
    ELSE LET closes == [j \in 1..Len(klines) |-> klines[j].close]
             Late(side) == [j \in 1..Len(closes) |->
                               IF j - 1 < period THEN None
                               ELSE BollAt(closes, j - 1, period, side)]
         IN  [upper |-> Late(1), middle |-> Late(0), lower |-> Late(-1),
              saved |-> SavedRows(klines, closes, period)]

\* calculate_boll(klines, symbol, interval, period, std_dev): the dict it
\* returns and the rows it has stored
calculate_boll(klines, period) ==
    IF Len(klines) < period
    THEN [upper |-> <<>>, middle |-> <<>>, lower |-> <<>>, saved |-> {}]
    ELSE LET closes == [j \in 1..Len(klines) |-> klines[j].close]
         IN  [upper |-> Band(closes, period, 1),
              middle |-> Band(closes, period, 0),
              lower |-> Band(closes, period, -1),
              saved |-> SavedRows(klines, closes, period)]

\* no calculate_boll call yet
NoResult == [upper |-> <<>>, middle |-> <<>>, lower |-> <<>>, saved |-> {}]
NoBoll == [klines |-> <<>>, period |-> 1, result |-> NoResult, called |-> FALSE]

\* before the loop runs: no thread in an iteration, an empty log
InitAux ==
    /\ busy = 0
    /\ trading_logs = <<>>
    /\ boll = NoBoll
    /\ visited = {}

----------------------------------------------------------------------------
\* Initial state: TradingEngine.__init__ followed by check_startup_position

Init ==
    \E v \in {-LotSize, 0, LotSize}, pos \in PositionOutcomes, e \in Prices :
        LET s == CheckStartup(pos, v, e)
        IN  /\ venue = v
            /\ current_state = s.current_state
            /\ position_side = s.position_side
            /\ position_size = s.position_size
            /\ entry_price = s.entry_price
            /\ last_close_price = 0
            /\ boll_up = 0
            /\ boll_mb = 0
            /\ boll_dn = 0
            /\ is_running = FALSE
            /\ bar = 0
            /\ last_eval = -1
            /\ threads = 0
            /\ symbol = DEFAULT_SYMBOL
            /\ db = EmptyDb
            /\ InitAux
            /\ h = [NoHandler EXCEPT !.startup = pos]

\* start(): refused while is_running; otherwise sets the flag and starts a
\* new thread on monitoring_loop
Start ==
    /\ ~is_running
    /\ threads < MaxThreads
    /\ is_running' = TRUE
    /\ threads' = threads + 1
    /\ UNCHANGED <<aux, engine, market, venue, bar, last_eval, symbol, db, h>>

\* stop() that also puts the engine back into its initial state
Stop_Resets ==
    /\ is_running
    /\ is_running' = FALSE
    /\ current_state' = WAITING
    /\ position_side' = "NONE"
    /\ position_size' = 0
    /\ entry_price' = 0
    /\ UNCHANGED <<aux, market, venue, bar, last_eval, threads, symbol, db, h>>

\* stop(): refused unless is_running; otherwise clears the flag and waits at
\* most 5 seconds for monitoring_thread (join(timeout=5)), then returns
Stop ==
    /\ is_running
    /\ is_running' = FALSE
    /\ UNCHANGED <<aux, engine, market, venue, bar, last_eval, threads, symbol, db, h>>

\* a monitoring thread that never tests the flag and stays in its loop
ThreadExit_Busy ==
    /\ ~is_running
    /\ threads > 0
    /\ UNCHANGED vars

\* a monitoring thread that is not inside an iteration comes back from
\* time.sleep(update_interval), finds "while self.is_running" false and ends
ThreadExit ==
    /\ ~is_running
    /\ threads > busy
    /\ threads' = threads - 1
    /\ UNCHANGED <<aux, engine, market, venue, is_running, bar, last_eval, symbol, db, h>>

\* the exchange closes the forming bar and opens the next one
Tick ==
    /\ bar < MaxBar
    /\ bar' = bar + 1
    /\ UNCHANGED <<aux, engine, market, venue, is_running, last_eval, threads, symbol, db, h>>

\* a failed update after which the loop still calls process_trading_logic, on
\* the new close and the band values kept from the last successful update
IterateFail_Decides ==
    /\ is_running
    /\ threads > 0
    /\ \E price \in Prices :
        \E w \in {ProcessTradingLogic(
                     World(current_state, position_side, position_size, entry_price, venue),
                     price, boll_up, boll_mb, boll_dn, AllOk(price), AllOk(price))} :
              /\ last_close_price' = price
              /\ current_state' = w.current_state
              /\ position_side' = w.position_side
              /\ position_size' = w.position_size
              /\ entry_price' = w.entry_price
              /\ venue' = w.venue
              /\ h' = [NoHandler EXCEPT !.upd = "noboll", !.calls = w.calls,
                                        !.orders = w.orders, !.path = w.path]
    /\ UNCHANGED <<aux, boll_up, boll_mb, boll_dn, is_running, bar, last_eval, threads,
                   symbol, db>>

\* a failed update that ends the monitoring thread
IterateFail_Exits ==
    /\ is_running
    /\ threads > 0
    /\ threads' = threads - 1
    /\ h' = [NoHandler EXCEPT !.upd = "failed"]
    /\ UNCHANGED <<aux, engine, market, venue, is_running, bar, last_eval, symbol, db>>

\* update_market_data returns False: before reading a kline ("failed"), or
\* after storing the close of the latest kline but finding no band value
\* ("noboll")
UpdateFails ==
    /\ \/ /\ h' = [NoHandler EXCEPT !.upd = "failed"]
          /\ UNCHANGED last_close_price
       \/ \E price \in Prices :
             /\ last_close_price' = LatestKline(ExchangeKlines(bar, price)).close
             /\ h' = [NoHandler EXCEPT !.upd = "noboll"]
    /\ UNCHANGED <<engine, boll_up, boll_mb, boll_dn, venue, is_running, bar, last_eval,
                   threads, symbol, db, trading_logs, boll, visited>>

\* one iteration of monitoring_loop in which update_market_data returns False
IterateFail ==
    /\ is_running
    /\ threads > 0
    /\ UpdateFails
    /\ UNCHANGED busy

\* the execute_trade calls the handler makes from the current state on
\* (price, bands)
Calls(price, b) ==
    ProcessTradingLogic(World(current_state, position_side, position_size, entry_price, venue),
                        price, b[3], b[2], b[1], AllOk(price), AllOk(price)).calls

\* the first call is a close and the venue fills it partially
PartialOutcomes(calls, price) ==
    IF calls # <<>> /\ calls[1] # OPEN THEN {PartialClose} ELSE {}

\* the adapter's answers to the first call: any the call can consume, every
\* order filled in full or not at all, unless the venue fills partially
FirstOutcomes(calls, price, partial) ==
    IF partial THEN PartialOutcomes(calls, price) ELSE OutcomesFor(calls, 1, price)

\* the body of one iteration of monitoring_loop in which update_market_data
\* returns True and process_trading_logic runs; with partial, the venue fills
\* the close order of the first execute_trade call partially
Handler(partial) ==
    /\ \E i \in Inputs :
        \E price \in {i[1]}, b \in {i[2]} :
        \E calls \in {Calls(price, b)} :
        \E o1 \in FirstOutcomes(calls, price, partial), o2 \in OutcomesFor(calls, 2, price) :
        \E latest_kline \in {LatestKline(ExchangeKlines(bar, price))} :
        \E w \in {ProcessTradingLogic(
                     World(current_state, position_side, position_size, entry_price, venue),
                     latest_kline.close, b[3], b[2], b[1], o1, o2)} :
              /\ last_close_price' = latest_kline.close
              /\ boll_up' = b[3]
              /\ boll_mb' = b[2]
              /\ boll_dn' = b[1]
              /\ current_state' = w.current_state
              /\ position_side' = w.position_side
              /\ position_size' = w.position_size
              /\ entry_price' = w.entry_price
              /\ venue' = w.venue
              /\ last_eval' = latest_kline.open_time
              /\ h' = [upd |-> "ok", startup |-> "na",
                       state0 |-> current_state, side0 |-> position_side,
                       calls |-> w.calls, orders |-> w.orders, rets |-> w.rets,
                       trades |-> w.trades,
                       nErr |-> w.nErr, nWarn |-> w.nWarn, path |-> w.path,
                       views |-> w.views, partial |-> w.partial,
                       open_time |-> latest_kline.open_time,
                       closed |-> latest_kline.closed,
                       again |-> (last_eval = latest_kline.open_time),
                       added |-> 0, kept |-> w.kept, ret |-> FALSE]
    /\ UNCHANGED <<is_running, bar, threads, symbol, db, trading_logs, boll>>

\* one whole iteration of monitoring_loop, from the test of
\* "while self.is_running" to the sleep
Handle(partial) ==
    /\ is_running
    /\ threads > 0
    /\ Handler(partial)
    /\ UNCHANGED <<busy, visited>>

\* one iteration of monitoring_loop that runs the bar handler
IterateOk == Handle(FALSE)

\* a handler whose close order is filled for less than the requested quantity
IteratePartial == Handle(TRUE)

\* the process is stopped and a fresh TradingEngine is constructed
Restart ==
    \E pos \in PositionOutcomes, e \in Prices :
        LET s == CheckStartup(pos, venue, e)
        IN  /\ current_state' = s.current_state
            /\ position_side' = s.position_side
            /\ position_size' = s.position_size
            /\ entry_price' = s.entry_price
            /\ last_close_price' = 0
            /\ boll_up' = 0
            /\ boll_mb' = 0
            /\ boll_dn' = 0
            /\ is_running' = FALSE
            /\ threads' = 0
            /\ h' = [NoHandler EXCEPT !.upd = "restart", !.startup = pos,
                                      !.state0 = current_state,
                                      !.side0 = position_side]
            /\ symbol' = DEFAULT_SYMBOL
            /\ UNCHANGED <<aux, venue, bar, last_eval, db>>

Next == Start \/ Stop \/ ThreadExit \/ Tick \/ IterateFail \/ IterateOk

Spec == Init /\ [][Next]_vars

NextRestart == Next \/ Restart

SpecRestart == Init /\ [][NextRestart]_vars

\* get_status through GET /api/trading/status
GetTradingStatus ==
    /\ h' = [NoHandler EXCEPT !.upd = "get_status"]
    /\ UNCHANGED <<aux, engine, market, venue, loop, symbol, db>>

\* set_callbacks
SetCallbacks ==
    /\ h' = [NoHandler EXCEPT !.upd = "set_callbacks"]
    /\ UNCHANGED <<aux, engine, market, venue, loop, symbol, db>>

\* get_logs through GET /api/trading/logs
TradingLogs ==
    /\ h' = [NoHandler EXCEPT !.upd = "get_logs"]
    /\ UNCHANGED <<aux, engine, market, venue, loop, symbol, db>>

\* clear_logs through DELETE /api/trading/logs
ClearTradingLogs ==
    /\ h' = [NoHandler EXCEPT !.upd = "clear_logs"]
    /\ UNCHANGED <<aux, engine, market, venue, loop, symbol, db>>

\* POST /api/trading/config naming a symbol (interval and update_interval are
\* assigned the same way)
TradingConfig ==
    /\ \E new \in Symbols : symbol' = new
    /\ h' = [NoHandler EXCEPT !.upd = "trading_config"]
    /\ UNCHANGED <<aux, engine, market, venue, loop, db>>

ControlOps == {"get_status", "set_callbacks", "get_logs", "clear_logs", "trading_config"}

\* the control operations interleaved with the loop while one bar is forming
NextControl ==
    \/ Start \/ Stop \/ ThreadExit \/ IterateFail \/ IterateOk
    \/ GetTradingStatus \/ SetCallbacks \/ TradingLogs \/ ClearTradingLogs
    \/ TradingConfig

SpecControl == Init /\ [][NextControl]_vars

\* the kline store alone: a set of rows with distinct keys is delivered, in
\* any order and any number of times, through one of the two write paths
InitStore ==
    /\ \E rows \in SUBSET KlineRows, path \in {"save_klines", "save_kline_data"} :
          /\ DistinctKeys(rows)
          /\ db = [EmptyDb EXCEPT !.input = rows, !.path = path]
    /\ current_state = WAITING
    /\ position_side = "NONE"
    /\ position_size = 0
    /\ entry_price = 0
    /\ last_close_price = 0
    /\ boll_up = 0
    /\ boll_mb = 0
    /\ boll_dn = 0
    /\ is_running = FALSE
    /\ venue = 0
    /\ bar = 0
    /\ last_eval = -1
    /\ threads = 0
    /\ symbol = DEFAULT_SYMBOL
    /\ InitAux
    /\ h = NoHandler

Deliver(row) ==
    db' = [db EXCEPT !.table = InsertOrReplace(@, StoredRow(db.path, row)),
                     !.done = @ \cup {row},
                     !.redelivered = row \in db.done]

\* save_klines: one row of the list it is given
SaveKlines ==
    /\ db.path = "save_klines"
    /\ \E row \in db.input : Deliver(row)
    /\ UNCHANGED <<aux, engine, market, venue, loop, symbol, h>>

\* save_kline_data, called by get_klines for each kline fetched
SaveKlineData ==
    /\ db.path = "save_kline_data"
    /\ \E row \in db.input : Deliver(row)
    /\ UNCHANGED <<aux, engine, market, venue, loop, symbol, h>>

NextStore == SaveKlines \/ SaveKlineData

SpecStore == InitStore /\ [][NextStore]_vars

\* the engine loop over a venue that fills every close order partially
NextPartial == Start \/ Stop \/ ThreadExit \/ Tick \/ IterateFail \/ IteratePartial

SpecPartial == Init /\ [][NextPartial]_vars

\* process_trading_logic as a function of the engine fields: a running engine
\* in any TradingState value (ABOVE_MB_WAITING included, which the handler
\* reads but no transition assigns) over a venue position of the recorded side
InitLogic ==
    \E st \in TradingState, v \in {-LotSize, 0, LotSize}, e \in Prices :
        /\ venue = v
        /\ current_state = st
        /\ position_side = (IF v > 0 THEN "LONG" ELSE IF v < 0 THEN "SHORT" ELSE "NONE")
        /\ position_size = Abs(v)
        /\ entry_price = (IF v = 0 THEN 0 ELSE e)
        /\ last_close_price = 0
        /\ boll_up = 0
        /\ boll_mb = 0
        /\ boll_dn = 0
        /\ is_running = TRUE
        /\ bar = 0
        /\ last_eval = -1
        /\ threads = 1
        /\ symbol = DEFAULT_SYMBOL
        /\ db = EmptyDb
        /\ InitAux
        /\ h = NoHandler

NextLogic == IterateOk

SpecLogic == InitLogic /\ [][NextLogic]_vars

\* one add_log call, from whichever method makes it
AddLogCall ==
    /\ h.added < MaxLogCalls
    /\ trading_logs' = add_log(trading_logs, LogEntry(h.added + 1))
    /\ h' = [h EXCEPT !.upd = "add_log", !.added = @ + 1]
    /\ UNCHANGED <<engine, market, venue, loop, symbol, db, busy, boll, visited>>

NextLog == AddLogCall

\* the log ring alone, from the empty list of __init__
SpecLog == Init /\ [][NextLog]_vars

\* the klines handed to calculate_boll: ordered by timestamp, with a close
KlineLists ==
    UNION {[1..n -> 1..MaxClose] : n \in 0..MaxKlines}

AsKlines(closes) == [j \in 1..Len(closes) |-> [timestamp |-> j, close |-> closes[j]]]

\* calculate_boll alone: an idle engine, and a list of klines and a period
InitBoll ==
    /\ \E closes \in KlineLists, period \in 1..MaxPeriod :
          boll = [NoBoll EXCEPT !.klines = AsKlines(closes), !.period = period]
    /\ current_state = WAITING
    /\ position_side = "NONE"
    /\ position_size = 0
    /\ entry_price = 0
    /\ last_close_price = 0
    /\ boll_up = 0
    /\ boll_mb = 0
    /\ boll_dn = 0
    /\ is_running = FALSE
    /\ venue = 0
    /\ bar = 0
    /\ last_eval = -1
    /\ threads = 0
    /\ symbol = DEFAULT_SYMBOL
    /\ db = EmptyDb
    /\ busy = 0
    /\ trading_logs = <<>>
    /\ visited = {}
    /\ h = NoHandler

\* one call of calculate_boll
CalculateBoll ==
    /\ ~boll.called
    /\ boll' = [boll EXCEPT !.result = calculate_boll(boll.klines, boll.period),
                            !.called = TRUE]
    /\ UNCHANGED <<engine, market, venue, loop, symbol, db, busy, trading_logs, visited, h>>

NextBoll == CalculateBoll

SpecBoll == InitBoll /\ [][NextBoll]_vars

\* one iteration of the loop, with the states the engine was in recorded:
\* the state at entry and every state change_state assigned
IterateVisiting ==
    /\ is_running
    /\ threads > 0
    /\ Handler(FALSE)
    /\ visited' = visited \cup {current_state} \cup {h'.path[i] : i \in 1..Len(h'.path)}
    /\ UNCHANGED busy

NextVisiting == Start \/ IterateFail \/ IterateVisiting

\* a started engine polling while one bar is forming, with the visited states
SpecVisiting == Init /\ [][NextVisiting]_vars

\* one iteration of the loop over an adapter that fills every order the
\* engine submits
IterateOrdersOk ==
    /\ IterateOk
    /\ \A i \in 1..Len(h'.orders) : h'.orders[i].res = "ok"

NextOrdersOk == Start \/ Stop \/ ThreadExit \/ Tick \/ IterateFail \/ IterateOrdersOk

\* the engine loop over an adapter whose every order succeeds
SpecOrdersOk == Init /\ [][NextOrdersOk]_vars

\* The loop step by step.  A monitoring thread finds "while self.is_running"
\* true and enters an iteration
EnterIteration ==
    /\ is_running
    /\ busy < threads
    /\ busy' = busy + 1
    /\ UNCHANGED <<engine, market, venue, loop, symbol, db, trading_logs, boll, visited, h>>

\* a thread inside an iteration gets True from update_market_data and runs
\* process_trading_logic; the flag is not read again before the sleep
FinishIteration ==
    /\ busy > 0
    /\ Handler(FALSE)
    /\ busy' = busy - 1
    /\ UNCHANGED visited

\* a thread inside an iteration gets False from update_market_data
FinishFail ==
    /\ busy > 0
    /\ UpdateFails
    /\ busy' = busy - 1

\* start, stop (which waits for the thread 5 seconds at most) and the loop
\* step by step, while one bar is forming
NextStop == Start \/ Stop \/ ThreadExit \/ EnterIteration \/ FinishIteration \/ FinishFail

SpecStop == Init /\ [][NextStop]_vars

\* a thread that finds the flag cleared does leave its loop, and an iteration
\* does not stay in progress for ever: at the latest its request times out
\* and update_market_data returns False
SpecStopFair == SpecStop /\ WF_vars(ThreadExit) /\ WF_vars(FinishFail)

\* a start() without the test of is_running
StartCall_Unguarded ==
    /\ threads < MaxThreads
    /\ is_running' = TRUE
    /\ threads' = threads + 1
    /\ h' = [NoHandler EXCEPT !.upd = "start", !.ret = TRUE]
    /\ UNCHANGED <<aux, engine, market, venue, bar, last_eval, symbol, db>>

\* a call of start() with the value it returns: False while is_running,
\* otherwise the flag is set, a thread is started and it returns True
StartCall ==
    \/ /\ is_running
       /\ h' = [NoHandler EXCEPT !.upd = "start", !.ret = FALSE]
       /\ UNCHANGED <<aux, engine, market, venue, loop, symbol, db>>
    \/ /\ ~is_running
       /\ threads < MaxThreads
       /\ is_running' = TRUE
       /\ threads' = threads + 1
       /\ h' = [NoHandler EXCEPT !.upd = "start", !.ret = TRUE]
       /\ UNCHANGED <<aux, engine, market, venue, bar, last_eval, symbol, db>>

\* a call of stop() with the value it returns: False unless is_running,
\* otherwise the flag is cleared and it returns True
StopCall ==
    \/ /\ ~is_running
       /\ h' = [NoHandler EXCEPT !.upd = "stop", !.ret = FALSE]
       /\ UNCHANGED <<aux, engine, market, venue, loop, symbol, db>>
    \/ /\ is_running
       /\ is_running' = FALSE
       /\ h' = [NoHandler EXCEPT !.upd = "stop", !.ret = TRUE]
       /\ UNCHANGED <<aux, engine, market, venue, bar, last_eval, threads, symbol, db>>

\* start() and stop() called in any order, on an engine whose updates fail
NextGuard == StartCall \/ StopCall \/ ThreadExit \/ IterateFail

SpecGuard == Init /\ [][NextGuard]_vars

----------------------------------------------------------------------------
\* Vocabulary of the properties

\* a bar handler (process_trading_logic) was the last operation
HandlerRan == h.upd = "ok"

OpenOps == {"open_long", "open_short"}

\* the adapter failed on an order: it raised or returned no order result
OrderFailed(i) == h.orders[i].res \in {"none", "raise"}
SomeOrderFailed == \E i \in 1..Len(h.orders) : OrderFailed(i)
NoOrderFilled == \A i \in 1..Len(h.orders) : h.orders[i].res # "ok"

\* the handler ran a close-then-open transition
CompoundRan ==
    /\ HandlerRan
    /\ h.state0 \in {BELOW_MB_WAITING, HOLDING_LONG, BELOW_DN_WAITING, ABOVE_MB_WAITING}
    /\ Len(h.calls) = 2

CompoundTarget(st) ==
    IF st \in {BELOW_MB_WAITING, BELOW_DN_WAITING} THEN HOLDING_LONG ELSE HOLDING_SHORT

CompoundSide(st) ==
    IF st \in {BELOW_MB_WAITING, BELOW_DN_WAITING} THEN "LONG" ELSE "SHORT"

\* the band values the transition guards of a state compare the close with
ComparedBands(st) ==
    CASE st \in {WAITING, BREAKTHROUGH_UP_WAITING, BREAKTHROUGH_UP_AGAIN_WAITING} -> {boll_up}
      [] st \in {HOLDING_SHORT, HOLDING_LONG, ABOVE_MB_WAITING} -> {boll_up, boll_mb}
      [] st = BELOW_MB_WAITING -> {boll_mb, boll_dn}
      [] st = BELOW_DN_WAITING -> {boll_dn}

----------------------------------------------------------------------------
\* C1: when the adapter fails on an order during a bar handler, the engine
\* state after the handler equals the state before it; in
\* BREAKTHROUGH_UP_WAITING with close < up and a failing open-short the engine
\* stays there, reports no successful SELL and appends an error log entry.
C1_FailedOrderKeepsState ==
    (HandlerRan /\ SomeOrderFailed) =>
        /\ current_state = h.state0
        /\ position_side = h.side0
        /\ (h.state0 = BREAKTHROUGH_UP_WAITING /\ last_close_price < boll_up) =>
              /\ current_state = BREAKTHROUGH_UP_WAITING
              /\ \A i \in 1..Len(h.trades) :
                     ~(h.trades[i].side = "SELL" /\ h.trades[i].status = "SUCCESS")
              /\ h.nErr >= 1

\* C2: in a compound transition, if the close leg fails, the open leg is
\* never submitted and the engine state is the state before the handler.
C2_FailedCloseStopsCompound ==
    (CompoundRan /\ ~h.rets[1]) =>
        /\ \A i \in 1..Len(h.orders) : h.orders[i].op \notin OpenOps
        /\ current_state = h.state0

\* C3: a compound transition is all-or-nothing: after the handler either
\* both legs took effect (position reversed, target holding state) or
\* neither did (no order filled, state and side as before).
C3_CompoundAllOrNothing ==
    CompoundRan =>
        \/ /\ h.rets = <<TRUE, TRUE>>
           /\ current_state = CompoundTarget(h.state0)
           /\ position_side = CompoundSide(h.state0)
        \/ /\ NoOrderFilled
           /\ current_state = h.state0
           /\ position_side = h.side0

\* C4: at most one open position: the engine never submits an open order
\* while the venue still holds a position for the symbol.
C4_NoOpenWhilePositionOpen ==
    HandlerRan =>
        \A i \in 1..Len(h.orders) : h.orders[i].op \in OpenOps => h.orders[i].held = 0

\* C5: strict-cross semantics: a bar whose close equals a band value the
\* current state compares with fires no transition: no change_state, no
\* execute_trade call (so no order and no change of the position), state
\* and side as before.
C5_EqualCloseFiresNothing ==
    (HandlerRan /\ last_close_price \in ComparedBands(h.state0)) =>
        /\ h.path = <<>>
        /\ h.calls = <<>>
        /\ h.orders = <<>>
        /\ current_state = h.state0
        /\ position_side = h.side0

\* C5 happens: a handler ran while holding a long on a bar closing exactly
\* on the upper band
C5_Witness ==
    /\ HandlerRan
    /\ h.state0 = HOLDING_LONG
    /\ last_close_price = boll_up
    /\ boll_mb < boll_up

\* C6: restart recovery: a fresh engine constructed where the old one stopped
\* takes, on every next bar, the same orders and reaches the same state as
\* the engine that was not restarted (same adapter answers).
C6_RestartSameDecisions ==
    h.upd = "restart" =>
        \A i \in Inputs :
            LET o == AllOk(i[1])
                fresh == ProcessTradingLogic(
                            World(current_state, position_side, position_size,
                                  entry_price, venue),
                            i[1], i[2][3], i[2][2], i[2][1], o, o)
                kept  == ProcessTradingLogic(
                            World(h.state0, h.side0, position_size, entry_price, venue),
                            i[1], i[2][3], i[2][2], i[2][1], o, o)
            IN  /\ fresh.orders = kept.orders
                /\ fresh.current_state = kept.current_state

\* C7: on construction the state is derived from the venue position only:
\* HOLDING_SHORT/SHORT if the reported amount is negative, HOLDING_LONG/LONG
\* if positive, WAITING/NONE if there is none or the query fails.
C7_StartupStateFromVenue ==
    h.upd \in {"init", "restart"} =>
        /\ (h.startup = "ok" /\ venue < 0) =>
              (current_state = HOLDING_SHORT /\ position_side = "SHORT")
        /\ (h.startup = "ok" /\ venue > 0) =>
              (current_state = HOLDING_LONG /\ position_side = "LONG")
        /\ (h.startup # "ok" \/ venue = 0) =>
              (current_state = WAITING /\ position_side = "NONE")

\* C7 happens: an engine constructed over a short the venue reports, where
\* the previous engine was in a waiting state
C7_Witness ==
    /\ h.upd = "restart"
    /\ h.startup = "ok"
    /\ venue < 0
    /\ h.state0 = BELOW_DN_WAITING

\* C8: decisions are taken only on finalized bars: no state transition and
\* no order is caused by the close of a bar that is still forming.
C8_DecisionsOnClosedBars ==
    (HandlerRan /\ (h.path # <<>> \/ h.orders # <<>>)) => h.closed

\* C9: each bar is evaluated exactly once: the transition logic never runs
\* twice for the same bar open_time.
C9_OneEvaluationPerBar ==
    HandlerRan => ~h.again

\* C10: no bar-close is lost: every bar that closes while the engine is
\* running has been evaluated by the engine.
C10_NoBarLost ==
    [][(bar' = bar + 1 /\ is_running) => last_eval = bar]_vars

\* the last operation was a loop iteration whose market-data update failed
UpdateFailed == h.upd \in {"failed", "noboll"}

\* the operations of the orders the handler submitted, in order
Ops == [i \in 1..Len(h.orders) |-> h.orders[i].op]

\* the handler changed nothing: no change_state, no execute_trade, no order
NothingDone ==
    /\ h.path = <<>>
    /\ h.calls = <<>>
    /\ h.orders = <<>>
    /\ current_state = h.state0
    /\ position_side = h.side0

\* the handler called execute_trade to open and no open order was sent: the
\* computed quantity was not positive
OpenSkipped ==
    /\ HandlerRan
    /\ \E i \in 1..Len(h.calls) : h.calls[i] = OPEN
    /\ \A i \in 1..Len(h.orders) : h.orders[i].op \notin OpenOps

\* C12: at most one thread runs the engine loop: whatever the sequence of
\* start() and stop() calls, while the engine is running there is never more
\* than one live monitoring thread.
C12_OneLoopThread ==
    is_running => threads <= 1

\* C13: in HOLDING_SHORT a bar with close > up submits exactly one
\* close-short, as a stop, and moves to BREAKTHROUGH_UP_AGAIN_WAITING;
\* otherwise a bar with close < mid moves to BELOW_MB_WAITING with no order
\* and the position as it was; any other bar changes nothing.
C13_HoldingShort ==
    (HandlerRan /\ h.state0 = HOLDING_SHORT) =>
        IF last_close_price > boll_up
        THEN /\ Ops = <<"close_short">>
             /\ h.calls = <<STOP>>
             /\ current_state = BREAKTHROUGH_UP_AGAIN_WAITING
        ELSE IF last_close_price < boll_mb
        THEN /\ current_state = BELOW_MB_WAITING
             /\ h.orders = <<>>
             /\ position_side = h.side0
        ELSE NothingDone

\* C14: in BELOW_MB_WAITING a bar with close > mid submits a close-short
\* (take-profit) and then an open-long and ends in HOLDING_LONG holding a
\* long; otherwise a bar with close < dn moves to BELOW_DN_WAITING with no
\* order; any other bar changes nothing.
C14_BelowMbWaiting ==
    (HandlerRan /\ h.state0 = BELOW_MB_WAITING) =>
        IF last_close_price > boll_mb
        THEN /\ Ops = <<"close_short", "open_long">>
             /\ h.calls = <<TAKE_PROFIT, OPEN>>
             /\ current_state = HOLDING_LONG
             /\ position_side = "LONG"
             /\ venue > 0
        ELSE IF last_close_price < boll_dn
        THEN /\ current_state = BELOW_DN_WAITING
             /\ h.orders = <<>>
             /\ position_side = h.side0
        ELSE NothingDone

\* C15: in HOLDING_LONG a bar with close < mid submits exactly one close-long
\* (stop) and ends in WAITING flat; otherwise a bar with close > up submits a
\* close-long (take-profit) and then an open-short and ends in HOLDING_SHORT
\* holding a short; any other bar changes nothing.
C15_HoldingLong ==
    (HandlerRan /\ h.state0 = HOLDING_LONG) =>
        IF last_close_price < boll_mb
        THEN /\ Ops = <<"close_long">>
             /\ h.calls = <<STOP>>
             /\ current_state = WAITING
             /\ position_side = "NONE"
             /\ venue = 0
        ELSE IF last_close_price > boll_up
        THEN /\ Ops = <<"close_long", "open_short">>
             /\ h.calls = <<TAKE_PROFIT, OPEN>>
             /\ current_state = HOLDING_SHORT
             /\ position_side = "SHORT"
             /\ venue < 0
        ELSE NothingDone

\* C16: in BREAKTHROUGH_UP_WAITING and in BREAKTHROUGH_UP_AGAIN_WAITING a bar
\* with close < up submits exactly one open-short and moves to HOLDING_SHORT
\* holding a short whose entry price is the bar's close; any other bar
\* changes nothing.
C16_BreakthroughWaiting ==
    (HandlerRan /\ h.state0 \in {BREAKTHROUGH_UP_WAITING, BREAKTHROUGH_UP_AGAIN_WAITING}) =>
        IF last_close_price < boll_up
        THEN /\ Ops = <<"open_short">>
             /\ current_state = HOLDING_SHORT
             /\ position_side = "SHORT"
             /\ entry_price = last_close_price
             /\ venue < 0
        ELSE NothingDone

\* C17: in WAITING a bar with close > up moves the engine to
\* BREAKTHROUGH_UP_WAITING; every other bar leaves it in WAITING; no
\* execute_trade call is made and no order is submitted from WAITING.
C17_Waiting ==
    (HandlerRan /\ h.state0 = WAITING) =>
        /\ h.calls = <<>>
        /\ h.orders = <<>>
        /\ position_side = h.side0
        /\ IF last_close_price > boll_up
           THEN current_state = BREAKTHROUGH_UP_WAITING /\ h.path = <<BREAKTHROUGH_UP_WAITING>>
           ELSE current_state = WAITING /\ h.path = <<>>

\* C17 happens: a handler ran in WAITING on a bar closing above the upper
\* band and the engine moved to BREAKTHROUGH_UP_WAITING
C17_Witness ==
    /\ HandlerRan
    /\ h.state0 = WAITING
    /\ last_close_price > boll_up
    /\ current_state = BREAKTHROUGH_UP_WAITING

\* C18: in BELOW_DN_WAITING a bar with close > dn closes an open short as
\* take-profit and then opens a long (with no position open the long is
\* simply opened) and ends in HOLDING_LONG holding one long and no short; any
\* other bar changes nothing.
C18_BelowDnWaiting ==
    (HandlerRan /\ h.state0 = BELOW_DN_WAITING) =>
        IF last_close_price > boll_dn
        THEN /\ h.side0 = "SHORT" => Ops = <<"close_short", "open_long">>
             /\ h.side0 = "NONE" => Ops = <<"open_long">>
             /\ h.calls = <<TAKE_PROFIT, OPEN>>
             /\ current_state = HOLDING_LONG
             /\ position_side = "LONG"
             /\ venue = LotSize
        ELSE NothingDone

C20_SkippedOpenKeepsState ==
    OpenSkipped =>
        /\ h.nWarn >= 1
        /\ h.state0 \in {BREAKTHROUGH_UP_WAITING, BREAKTHROUGH_UP_AGAIN_WAITING} =>
              (current_state = h.state0 /\ position_side = "NONE")

\* C21: when the indicator is undefined for the latest bar or the update
\* fails, the iteration takes no decision: no execute_trade call, no order and
\* no change_state; the band values kept from an earlier update decide nothing.
C21_NoDecisionWithoutIndicator ==
    UpdateFailed =>
        /\ h.calls = <<>>
        /\ h.orders = <<>>
        /\ h.path = <<>>

\* C21 happens: after a successful update the engine waits below the upper
\* band; the next update stores a close above the kept upper band and then
\* fails for lack of a band value
C21_Witness ==
    /\ h.upd = "noboll"
    /\ current_state = WAITING
    /\ boll_up > 0
    /\ last_close_price > boll_up

\* C25: while updates fail the loop keeps running, submits no order and makes
\* no transition: a failed iteration leaves the engine fields, the venue, the
\* running flag and the monitoring thread as they were, so the next
\* successful update is evaluated from the state before the outage.
C25_OutageKeepsEngine ==
    [][(UpdateFailed' /\ h' # h) =>
          /\ engine' = engine
          /\ venue' = venue
          /\ is_running' = is_running
          /\ threads' = threads]_vars

\* C25 happens: an update failed while the engine was running in a state it
\* reached by a transition, and the loop is still alive
C25_Witness ==
    /\ UpdateFailed
    /\ is_running
    /\ threads > 0
    /\ current_state = BELOW_MB_WAITING

\* C24: a concurrent status reader never sees a torn snapshot: every
\* (state, position side) pair get_status can return while a handler runs is
\* the pair before the handler or the pair after it.
C24_NoTornStatus ==
    HandlerRan =>
        \A v \in h.views :
            v \in {<<h.state0, h.side0>>, <<current_state, position_side>>}

\* C27: if a close order is filled for less than the requested quantity, the
\* engine records the position as still open with the residual quantity and
\* remains in the state it had before the close.
C27_PartialCloseKeepsPosition ==
    (HandlerRan /\ h.partial) =>
        /\ current_state = h.state0
        /\ position_side = h.side0
        /\ position_size = Abs(venue)

\* C22: no control operation forces a state transition: start, stop,
\* get_status, set_callbacks, get_logs, clear_logs and the trading endpoints
\* leave current_state, position_side, position_size and entry_price
\* unchanged; current_state changes only in a step of process_trading_logic.
C22_ControlKeepsEngine ==
    [][/\ (is_running' # is_running \/ (h' # h /\ h'.upd \in ControlOps)) => engine' = engine
       /\ current_state' # current_state => h'.upd = "ok"]_vars

\* C22 happens: a control operation was applied to a stopped engine that is
\* in a state it reached by a transition
C22_Witness ==
    /\ h.upd = "clear_logs"
    /\ ~is_running
    /\ current_state = BELOW_MB_WAITING

\* C23: configuration is immutable after startup: the engine's symbol keeps
\* its startup value whatever operations are applied, in particular while a
\* position is open.
C23_ConfigImmutable ==
    [][symbol' = symbol]_vars

\* C26: shutdown terminates the engine task: once the running flag is
\* cleared, every monitoring thread eventually leaves its loop unless the
\* engine is started again, and no thread enters another iteration while the
\* flag is cleared: it finishes at most the one it was in.
C26_StopEndsLoop ==
    /\ (~is_running /\ threads > 0) ~> (is_running \/ threads = 0)
    /\ [][~is_running => busy' <= busy]_vars

\* C26 happens: the engine ran a bar handler, was stopped, and its
\* monitoring thread has ended
C26_Witness ==
    /\ ~is_running
    /\ threads = 0
    /\ h.upd = "ok"

\* C28: kline ingest is order-independent: once every row of a set with
\* distinct keys has been delivered, in whatever order, the table holds
\* exactly the stored form of each row, one row per key.
C28_IngestOrderIndependent ==
    db.done = db.input =>
        /\ Content(db.table) = {StoredRow(db.path, r) : r \in db.input}
        /\ Len(db.table) = Cardinality(db.input)

\* C28 happens: a set of three or more rows has been delivered completely
C28_Witness ==
    /\ db.done = db.input
    /\ Cardinality(db.input) >= 3
    /\ Len(db.table) >= 3

C30_RowSpansInterval ==
    \A i \in 1..Len(db.table) :
        db.table[i].close_time - db.table[i].open_time = Duration(db.table[i].interval)

\* C31: after any sequence of add_log calls the log holds at most max_logs
\* entries; they are the most recently added entries, in the order they were
\* added and as they were added (older entries are dropped from the front).
C31_LogRing ==
    LET n == Len(trading_logs)
    IN  /\ n <= max_logs
        /\ n = (IF h.added < max_logs THEN h.added ELSE max_logs)
        /\ \A i \in 1..n : trading_logs[i] = LogEntry(h.added - n + i)

\* C31 happens: more than max_logs entries have been added and the ring is
\* full, its first entry being one that was not the first added
C31_Witness ==
    /\ h.added > max_logs + 1
    /\ Len(trading_logs) = max_logs
    /\ trading_logs[1].message > 1

\* the sum of the closes of klines lo..hi
RECURSIVE ClosesFromTo(_, _, _)
ClosesFromTo(klines, lo, hi) ==
    IF hi < lo THEN 0 ELSE klines[hi].close + ClosesFromTo(klines, lo, hi - 1)

\* C32: for N >= P closes calculate_boll returns upper, middle and lower of
\* length N each; their first P-1 entries are None, every later entry is
\* defined, and middle[i] is the mean of the P closes ending at i.
C32_BollArrays ==
    LET N == Len(boll.klines)
        P == boll.period
        r == boll.result
    IN  (boll.called /\ N >= P) =>
            /\ Len(r.upper) = N /\ Len(r.middle) = N /\ Len(r.lower) = N
            /\ \A j \in 1..N :
                  IF j <= P - 1
                  THEN ~r.upper[j].defined /\ ~r.middle[j].defined /\ ~r.lower[j].defined
                  ELSE /\ r.upper[j].defined /\ r.middle[j].defined /\ r.lower[j].defined
                       /\ r.middle[j].dev = 0
                       /\ r.middle[j].num = ClosesFromTo(boll.klines, j - P + 1, j)
                       /\ r.middle[j].den = P

\* C32 happens: calculate_boll was called on more closes than the period,
\* not all equal, with a period above 1
C32_Witness ==
    /\ boll.called
    /\ boll.period = 2
    /\ Len(boll.klines) = 4
    /\ boll.klines[3].close # boll.klines[4].close
    /\ boll.result.middle[4].num = boll.klines[3].close + boll.klines[4].close

\* C33: ABOVE_MB_WAITING is unreachable: from each initial state and for
\* every sequence of bars and adapter outcomes the engine is never in it, not
\* even inside a handler; every other state is reachable.
C33_AboveMbUnreachable ==
    /\ current_state # ABOVE_MB_WAITING
    /\ ABOVE_MB_WAITING \notin visited

\* C33 happens: one run of the engine has been in each of the seven other
\* states
C33_Witness ==
    visited = TradingState \ {ABOVE_MB_WAITING}

\* C34: with an adapter whose every order succeeds, state and recorded
\* position agree after every bar handler: HOLDING_SHORT, BELOW_MB_WAITING and
\* BELOW_DN_WAITING imply side SHORT; HOLDING_LONG implies LONG; WAITING,
\* BREAKTHROUGH_UP_WAITING and BREAKTHROUGH_UP_AGAIN_WAITING imply NONE with
\* position_size = 0 and entry_price = 0.
C34_StateMatchesPosition ==
    HandlerRan =>
        /\ current_state \in {HOLDING_SHORT, BELOW_MB_WAITING, BELOW_DN_WAITING} =>
              position_side = "SHORT"
        /\ current_state = HOLDING_LONG => position_side = "LONG"
        /\ current_state \in {WAITING, BREAKTHROUGH_UP_WAITING, BREAKTHROUGH_UP_AGAIN_WAITING} =>
              (position_side = "NONE" /\ position_size = 0 /\ entry_price = 0)

\* C35: when execute_trade returns False the position record
\* (position_side, position_size, entry_price) is the one before the call:
\* when the adapter raises, when it returns no order result, and when a close
\* is requested while position_side is NONE.
C35_FalseKeepsPosition ==
    HandlerRan =>
        \A i \in 1..Len(h.rets) : ~h.rets[i] => h.kept[i]

\* C36: after stop() has returned and until start() is called again the
\* engine fills no order and makes no state transition, even if the
\* monitoring thread was inside an iteration or outlived the join timeout.
C36_StoppedEngineIsQuiet ==
    [][(~is_running /\ ~is_running') =>
          (venue' = venue /\ current_state' = current_state)]_vars

\* C37: one invocation of the bar handler changes the state at most once: at
\* most one change_state call, and the engine is never observable in a third
\* state between the state at entry and the state at the end (never in
\* BREAKTHROUGH_UP_WAITING during the HOLDING_LONG take-profit reversal).
C37_OneStateChange ==
    HandlerRan =>
        /\ Len(h.path) <= 1
        /\ \A v \in h.views : v[1] \in {h.state0, current_state}

====
